---------------------------- MODULE Spec2Model ----------------------------
(***************************************************************************)
(* Model of the ScaledDotProductAttention custom operator                  *)
(* (src/src/finn/custom_op/fpgadataflow/attention.py).                     *)
(*                                                                         *)
(* The state is one operator instance: its node attributes, the datatype   *)
(* annotations of the surrounding model, the warnings of the latest        *)
(* datatype inference, the execution context, the array files exchanged    *)
(* with the simulation, the code generation dictionary and the position of *)
(* a running execute_node call.  Operators taking "self" read the node     *)
(* attributes the way the methods read them through get_nodeattr.          *)
(***************************************************************************)
EXTENDS Integers, Sequences, FiniteSets, TLC

VARIABLES
    nodeattr,         \* the node attributes (get_nodeattr / set_nodeattr)
    tensor_datatype,  \* model.get_tensor_datatype, per tensor of the node
    warnings,         \* warnings.warn events of the latest infer_node_datatype
    context_out,      \* context[node.output[0]]: "absent" or who wrote it
    files,            \* array files written into the code generation dirs
    sim_runs,         \* calls of exec_precompiled_singlenode_model so far
    code_gen_dict,    \* self.code_gen_dict: fragment key -> list of lines
    pc,               \* position inside execute_node, "idle" between calls
    ind,              \* loop index of the input loop of execute_node
    code_gen_dir,     \* local variable code_gen_dir of execute_node
    last_op,          \* the latest operation called
    outcome,          \* how it ended: "ok", "running" or the exception raised
    mask,             \* local variable mask of the python execution mode
    result            \* what the latest shape or width query returned

vars == <<nodeattr, tensor_datatype, warnings, context_out, files, sim_runs,
          code_gen_dict, pc, ind, code_gen_dir, last_op, outcome, mask,
          result>>

---------------------------------------------------------------------------
(* Bounds of the model.                                                    *)

\* Shape attributes (QKDim, QLen, VDim, KVLen) range over 1..MaxDim.
MaxDim == 3
\* Fold attributes (EmbFold, SeqFold) range over 1..MaxFold.
MaxFold == 2
\* Datatypes of the accumulator analysis have 2..MaxBits bits.
MaxBits == 3

---------------------------------------------------------------------------
(* QONNX datatypes.  A datatype name is the string the attribute stores,   *)
(* DataType[name] resolves it against the registry of integer types.       *)

RegistryWidths == 1..32

IntTypeName(signed, bitwidth) ==
    (IF signed THEN "INT" ELSE "UINT") \o ToString(bitwidth)

IntType(signed, bitwidth) ==
    [name |-> IntTypeName(signed, bitwidth), signed |-> signed,
     bitwidth |-> bitwidth]

Registry == {IntType(s, w) : s \in BOOLEAN, w \in RegistryWidths}

\* DataType[name]
DataType(name) == CHOOSE d \in Registry : d.name = name

\* DataType.min()
TypeMin(d) == IF d.signed THEN -(2 ^ (d.bitwidth - 1)) ELSE 0

\* DataType.max()
TypeMax(d) == IF d.signed THEN 2 ^ (d.bitwidth - 1) - 1 ELSE 2 ^ d.bitwidth - 1

\* DataType.get_hls_datatype_str()
HlsTypeStr(d) ==
    (IF d.signed THEN "ap_int<" ELSE "ap_uint<") \o ToString(d.bitwidth) \o ">"

---------------------------------------------------------------------------
(* Node attributes: get_nodeattr_types.                                    *)

MaskModes == {"none", "input", "causal"}

\* The exec_mode strings: the allowed ones and one that is none of them.
ExecModes == {"", "rtlsim", "cppsim", "python", "bogus"}

\* The optional attributes at their defaults; the required ones are set by
\* whoever declares the node (here: a smallest well-formed instance).
DefaultAttrs ==
    [QKDim |-> 1, QLen |-> 1, VDim |-> 1, KVLen |-> 1,
     EmbFold |-> 1, SeqFold |-> 1,
     QType |-> "UINT8", KType |-> "UINT8", VType |-> "UINT8",
     MType |-> "UINT8", AType |-> "UINT8", OType |-> "UINT8",
     AccQKMatMul |-> "UINT32", OutQKMatMul |-> "UINT32",
     ActQKMatMul |-> "PassThroughActivation<AccQKMatMul>",
     AccAVMatMul |-> "UINT32", OutAVMatMul |-> "UINT32",
     ActAVMatMul |-> "PassThroughActivation<AccAVMatMul>",
     ActASoftmax |-> "PassThroughActivation<OutQKMatMul>",
     mask_mode |-> "none", exec_mode |-> ""]

\* shapes
shapes(self) == <<self.QKDim, self.QLen, self.VDim, self.KVLen>>

\* folds
folds(self) == <<self.EmbFold, self.SeqFold>>

\* A plausible slip: the value dimension is not tested against the fold.
is_valid_folding_no_vdim(self) ==
    LET qkdim == shapes(self)[1]
        kvlen == shapes(self)[4]
        embfold == folds(self)[1]
        seqfold == folds(self)[2]
    IN  ~((qkdim % embfold) # 0 \/ (kvlen % seqfold) # 0)

\* is_valid_folding: all shapes must be multiples of their fold.
is_valid_folding(self) ==
    LET qkdim == shapes(self)[1]
        vdim == shapes(self)[3]
        kvlen == shapes(self)[4]
        embfold == folds(self)[1]
        seqfold == folds(self)[2]
    IN  ~((qkdim % embfold) # 0 \/ (vdim % embfold) # 0
          \/ (kvlen % seqfold) # 0)

\* len(self.onnx_node.input): the mask is the fourth input of the node
\* exactly when it is provided as an input.
NumInputs(self) == IF self.mask_mode = "input" THEN 4 ELSE 3

---------------------------------------------------------------------------
(* Shapes.  A shape query returns [raised, shape]: raised is "" and shape  *)
(* the tuple, or raised names the exception and shape is empty.            *)

Returned(shape) == [raised |-> "", shape |-> shape]
Raised(exc) == [raised |-> exc, shape |-> <<>>]

\* get_normal_input_shape: indexes the list of input shapes, the Python
\* way (a negative index counts from the end).
get_normal_input_shape(self, i) ==
    LET inputs_shapes ==
            <<<<self.QLen, self.QKDim>>,
              <<self.KVLen, self.QKDim>>,
              <<self.KVLen, self.VDim>>>>
            \o (IF self.mask_mode = "input"
                THEN <<<<self.QLen, self.KVLen>>>> ELSE <<>>)
        n == Len(inputs_shapes)
    IN  IF 0 <= i /\ i < n THEN Returned(inputs_shapes[i + 1])
        ELSE IF -n <= i /\ i < 0 THEN Returned(inputs_shapes[n + i + 1])
        ELSE Raised("IndexError")

\* A plausible slip: an index that names no role gets the embedding folding
\* instead of an exception.
get_folded_input_shape_lenient(self, i) ==
    LET normal == get_normal_input_shape(self, i)
        embfold == folds(self)[1]
        seqfold == folds(self)[2]
    IN  IF normal.raised # "" THEN normal
        ELSE LET ilen == normal.shape[1]
                 idim == normal.shape[2]
             IN  IF i = 3 /\ self.mask_mode = "input"
                 THEN Returned(<<ilen, seqfold, idim \div seqfold>>)
                 ELSE Returned(<<ilen, embfold, idim \div embfold>>)

\* get_folded_input_shape
get_folded_input_shape(self, i) ==
    LET normal == get_normal_input_shape(self, i)
        embfold == folds(self)[1]
        seqfold == folds(self)[2]
    IN  IF normal.raised # "" THEN normal
        ELSE LET ilen == normal.shape[1]
                 idim == normal.shape[2]
             IN  IF i \in {0, 1, 2}
                 THEN Returned(<<ilen, embfold, idim \div embfold>>)
                 ELSE IF i = 3 /\ self.mask_mode = "input"
                 THEN Returned(<<ilen, seqfold, idim \div seqfold>>)
                 ELSE Raised("Exception")

\* get_normal_output_shape
get_normal_output_shape(self) == <<self.QLen, self.VDim>>

\* get_folded_output_shape
get_folded_output_shape(self) ==
    LET olen == get_normal_output_shape(self)[1]
        odim == get_normal_output_shape(self)[2]
        embfold == folds(self)[1]
    IN  <<olen, embfold, odim \div embfold>>

\* get_normal_attention_shape
get_normal_attention_shape(self) == <<self.QLen, self.KVLen>>

\* A plausible slip: the attention weights folded along the embedding fold.
get_folded_attention_shape_embfold(self) ==
    LET alen == get_normal_attention_shape(self)[1]
        adim == get_normal_attention_shape(self)[2]
        embfold == folds(self)[1]
    IN  <<alen, embfold, adim \div embfold>>

\* get_folded_attention_shape
get_folded_attention_shape(self) ==
    LET alen == get_normal_attention_shape(self)[1]
        adim == get_normal_attention_shape(self)[2]
        seqfold == folds(self)[2]
    IN  <<alen, seqfold, adim \div seqfold>>

\* Number of elements of a shape (what reshape must preserve).
NumElems(shape) ==
    IF Len(shape) = 2 THEN shape[1] * shape[2]
    ELSE shape[1] * shape[2] * shape[3]

---------------------------------------------------------------------------
(* execute_node, one step per statement group.                             *)

InputNames == <<"q", "k", "v", "m">>

NpyFile(dir, name) == dir \o "/" \o name \o ".npy"

Finish(exc) ==
    /\ pc' = "idle"
    /\ outcome' = exc

\* A plausible slip: the assertion is missing and the call goes on.
execute_node_assert_missing ==
    /\ pc = "idle"
    /\ last_op' = "execute_node"
    /\ pc' = "select_dir"
    /\ outcome' = "running"
    /\ UNCHANGED <<mask, result>>
    /\ UNCHANGED <<nodeattr, tensor_datatype, warnings, context_out, files,
                   sim_runs, code_gen_dict, ind, code_gen_dir>>

\* assert self.is_valid_folding, "Invalid Folding"
execute_node_assert ==
    /\ pc = "idle"
    /\ last_op' = "execute_node"
    /\ IF is_valid_folding(nodeattr)
       THEN pc' = "select_dir" /\ outcome' = "running"
       ELSE Finish("AssertionError")
    /\ UNCHANGED <<mask, result>>
    /\ UNCHANGED <<nodeattr, tensor_datatype, warnings, context_out, files,
                   sim_runs, code_gen_dict, ind, code_gen_dir>>

\* A plausible slip: an unknown mode falls back to the cppsim directory.
select_code_gen_dir_fallback(mode) ==
    IF mode = "rtlsim" THEN "code_gen_dir_ipgen" ELSE "code_gen_dir_cppsim"

\* The attribute holding the directory of the mode, "raise" for no mode.
select_code_gen_dir(mode) ==
    IF mode = "cppsim" \/ mode = "python" THEN "code_gen_dir_cppsim"
    ELSE IF mode = "rtlsim" THEN "code_gen_dir_ipgen"
    ELSE "raise"

\* mode = exec_mode; code_gen_dir by mode, or the invalid exec_mode error
execute_node_select_dir ==
    /\ pc = "select_dir"
    /\ LET dir == select_code_gen_dir(nodeattr.exec_mode)
       IN  IF dir = "raise"
           THEN Finish("Exception") /\ UNCHANGED <<code_gen_dir, ind>>
           ELSE /\ code_gen_dir' = dir
                /\ ind' = 0
                /\ pc' = "save_inputs"
                /\ UNCHANGED outcome
    /\ UNCHANGED <<mask, result>>
    /\ UNCHANGED <<nodeattr, tensor_datatype, warnings, context_out, files,
                   sim_runs, code_gen_dict, last_op>>

\* One round of the loop over zip(["q", "k", "v", "m"], node.input): the
\* input of the context (of its normal shape) is reshaped to the folded
\* shape and saved to file.
execute_node_save_input ==
    /\ pc = "save_inputs"
    /\ ind < NumInputs(nodeattr)
    /\ LET folded == get_folded_input_shape(nodeattr, ind)
           normal == get_normal_input_shape(nodeattr, ind)
       IN  IF folded.raised # ""
           THEN Finish(folded.raised) /\ UNCHANGED <<files, ind>>
           ELSE IF NumElems(folded.shape) # NumElems(normal.shape)
           THEN Finish("ValueError") /\ UNCHANGED <<files, ind>>
           ELSE /\ files' = files \cup
                        {NpyFile(code_gen_dir, InputNames[ind + 1])}
                /\ ind' = ind + 1
                /\ UNCHANGED <<pc, outcome>>
    /\ UNCHANGED <<mask, result>>
    /\ UNCHANGED <<nodeattr, tensor_datatype, warnings, context_out,
                   sim_runs, code_gen_dict, code_gen_dir, last_op>>

\* The loop is exhausted.
execute_node_inputs_saved ==
    /\ pc = "save_inputs"
    /\ ind = NumInputs(nodeattr)
    /\ pc' = "compute"
    /\ UNCHANGED <<mask, result>>
    /\ UNCHANGED <<nodeattr, tensor_datatype, warnings, context_out, files,
                   sim_runs, code_gen_dict, ind, code_gen_dir, last_op,
                   outcome>>

\* A plausible slip: rtlsim is served by the cppsim branch.
mode_branch_rtlsim_as_cppsim(mode) ==
    IF mode = "python" THEN "python"
    ELSE IF mode = "cppsim" \/ mode = "rtlsim" THEN "cppsim"
    ELSE "other"

\* The branch of the if/elif chain over the mode that is taken.
mode_branch(mode) ==
    IF mode = "python" THEN "python"
    ELSE IF mode = "cppsim" THEN "cppsim"
    ELSE IF mode = "rtlsim" THEN "rtlsim"
    ELSE "other"

\* The local variable mask before the python mode assigns it.
NoMask == [kind |-> "unset", rows |-> <<>>]

\* 0 * gen_finn_dt_tensor(mask_dtype, (rows, cols)): whatever values are
\* drawn, the product is an all zero float tensor of that shape.
zeros(rows, cols) == [i \in 1..rows |-> [j \in 1..cols |-> "0.0"]]

\* np.triu_indices_from(m, k): the positions of the (possibly non-square)
\* matrix m on or above its k-th diagonal, that is those with j - i >= k.
triu_indices_from(m, k) ==
    {p \in (1..Len(m)) \X (1..Len(m[1])) : p[2] - p[1] >= k}

causal_mask_with_diagonal(qlen, kvlen) ==
    LET z == zeros(qlen, kvlen)
        upper == triu_indices_from(z, 0)
    IN [i \in 1..qlen |->
           [j \in 1..kvlen |->
               IF <<i, j>> \in upper THEN "-inf" ELSE z[i][j]]]

\* mask = 0 * gen_finn_dt_tensor(...); mask[np.triu_indices_from(mask, 1)]
\* = -np.inf, for queries of length qlen and keys of length kvlen.
causal_mask(qlen, kvlen) ==
    LET z == zeros(qlen, kvlen)
        upper == triu_indices_from(z, 1)
    IN [i \in 1..qlen |->
           [j \in 1..kvlen |->
               IF <<i, j>> \in upper THEN "-inf" ELSE z[i][j]]]

\* The mask the python mode adds to the scaled scores: the scalar 0, the
\* fourth input tensor (its contents are not modelled), or the causal mask
\* generated from the shapes of the query and key tensors.
python_mask(self) ==
    IF self.mask_mode = "input" THEN [kind |-> "input", rows |-> <<>>]
    ELSE IF self.mask_mode = "causal"
         THEN [kind |-> "causal", rows |-> causal_mask(self.QLen, self.KVLen)]
    ELSE [kind |-> "scalar", rows |-> <<<<"0.0">>>>]

\* mode == "python": the attention is computed with numpy and stored.
execute_node_python ==
    /\ pc = "compute"
    /\ mode_branch(nodeattr.exec_mode) = "python"
    /\ mask' = python_mask(nodeattr)
    /\ context_out' = "python"
    /\ Finish("ok")
    /\ UNCHANGED result
    /\ UNCHANGED <<nodeattr, tensor_datatype, warnings, files, sim_runs,
                   code_gen_dict, ind, code_gen_dir, last_op>>

\* mode == "cppsim": the precompiled simulation runs, writes out.npy, and
\* the output is loaded, reshaped and stored.
execute_node_cppsim ==
    /\ pc = "compute"
    /\ mode_branch(nodeattr.exec_mode) = "cppsim"
    /\ sim_runs' = 1
    /\ files' = files \cup {NpyFile(code_gen_dir, "out")}
    /\ context_out' = "cppsim"
    /\ Finish("ok")
    /\ UNCHANGED <<mask, result>>
    /\ UNCHANGED <<nodeattr, tensor_datatype, warnings, code_gen_dict, ind,
                   code_gen_dir, last_op>>

\* mode == "cppsim": the external simulation fails, which is fatal.
execute_node_cppsim_fails ==
    /\ pc = "compute"
    /\ mode_branch(nodeattr.exec_mode) = "cppsim"
    /\ sim_runs' = 1
    /\ Finish("ExternalProcessError")
    /\ UNCHANGED <<mask, result>>
    /\ UNCHANGED <<nodeattr, tensor_datatype, warnings, context_out, files,
                   code_gen_dict, ind, code_gen_dir, last_op>>

\* mode == "rtlsim" raises NotImplementedError, and the final else of the
\* dispatch raises the invalid exec_mode error.
execute_node_raise ==
    /\ pc = "compute"
    /\ mode_branch(nodeattr.exec_mode) \in {"rtlsim", "other"}
    /\ Finish(IF mode_branch(nodeattr.exec_mode) = "rtlsim"
              THEN "NotImplementedError" ELSE "Exception")
    /\ UNCHANGED <<mask, result>>
    /\ UNCHANGED <<nodeattr, tensor_datatype, warnings, context_out, files,
                   sim_runs, code_gen_dict, ind, code_gen_dir, last_op>>

execute_node ==
    \/ execute_node_assert
    \/ execute_node_select_dir
    \/ execute_node_save_input
    \/ execute_node_inputs_saved
    \/ execute_node_python
    \/ execute_node_cppsim
    \/ execute_node_cppsim_fails
    \/ execute_node_raise

---------------------------------------------------------------------------
(* infer_node_datatype.  The model hands out DataType objects; comparing   *)
(* one with a stored attribute compares its name with the string.          *)

\* What one changing input role contributes to the list of warnings.
WarnIfChanging(attr, dtype, stored) ==
    IF dtype.name # stored THEN <<attr>> ELSE <<>>

\* A plausible slip: the output datatype is inferred like the inputs.
infer_node_datatype_overwrites_otype ==
    /\ pc = "idle"
    /\ last_op' = "infer_node_datatype"
    /\ LET q_dtype == tensor_datatype["in0"]
           k_dtype == tensor_datatype["in1"]
           v_dtype == tensor_datatype["in2"]
           o_dtype == tensor_datatype["out0"]
       IN  /\ warnings' = WarnIfChanging("QType", q_dtype, nodeattr.QType)
                          \o WarnIfChanging("KType", k_dtype, nodeattr.KType)
                          \o WarnIfChanging("VType", v_dtype, nodeattr.VType)
           /\ nodeattr' = [nodeattr EXCEPT !.QType = q_dtype.name,
                                           !.KType = k_dtype.name,
                                           !.VType = v_dtype.name,
                                           !.OType = o_dtype.name]
           /\ outcome' = "ok"
           /\ UNCHANGED tensor_datatype
    /\ UNCHANGED <<mask, result>>
    /\ UNCHANGED <<context_out, files, sim_runs, code_gen_dict, pc, ind,
                   code_gen_dir>>

\* infer_node_datatype: the whole call.  With mask_mode "input" the update
\* of MType reads mask_dtype.namke, which no DataType has: AttributeError,
\* after the warnings and the updates of QType, KType, VType, and before
\* the output datatype of the model is set.
infer_node_datatype ==
    /\ pc = "idle"
    /\ last_op' = "infer_node_datatype"
    /\ LET q_dtype == tensor_datatype["in0"]
           k_dtype == tensor_datatype["in1"]
           v_dtype == tensor_datatype["in2"]
           qkv_warnings ==
               WarnIfChanging("QType", q_dtype, nodeattr.QType)
               \o WarnIfChanging("KType", k_dtype, nodeattr.KType)
               \o WarnIfChanging("VType", v_dtype, nodeattr.VType)
           updated == [nodeattr EXCEPT !.QType = q_dtype.name,
                                       !.KType = k_dtype.name,
                                       !.VType = v_dtype.name]
       IN  /\ nodeattr' = updated
           /\ IF updated.mask_mode = "input"
              THEN LET mask_dtype == tensor_datatype["in3"]
                   IN  /\ warnings' = qkv_warnings
                              \o WarnIfChanging("MType", mask_dtype,
                                                updated.MType)
                       /\ outcome' = "AttributeError"
                       /\ UNCHANGED tensor_datatype
              ELSE /\ warnings' = qkv_warnings
                   /\ tensor_datatype' =
                          [tensor_datatype EXCEPT
                              !["out0"] = DataType(updated.OType)]
                   /\ outcome' = "ok"
    /\ UNCHANGED <<mask, result>>
    /\ UNCHANGED <<context_out, files, sim_runs, code_gen_dict, pc, ind,
                   code_gen_dir>>

---------------------------------------------------------------------------
(* minimize_accumulator_width.                                             *)

RECURSIVE CeilLog2(_)
\* ceil(log2(n)) for n >= 1; below 2^31 the float log2 of numpy decides the
\* ceiling the same way.
CeilLog2(n) == IF n <= 1 THEN 0 ELSE 1 + CeilLog2((n + 1) \div 2)

Max(a, b) == IF a >= b THEN a ELSE b

\* A plausible slip: the "+ 1" is dropped.
acc_bit_width_no_plus_one(bound) == CeilLog2(bound)

\* int(np.ceil(np.log2(bound) + 1))
acc_bit_width(bound) == CeilLog2(bound) + 1

\* The accumulator type for a contraction of length dim over the types
\* named ltype and rtype.
AccType(dim, ltype, rtype) ==
    LET lo == dim * TypeMin(DataType(ltype)) * TypeMin(DataType(rtype))
        hi == dim * TypeMax(DataType(ltype)) * TypeMax(DataType(rtype))
        bound == Max(-lo, 1 + hi)
    IN  "UINT" \o ToString(acc_bit_width(bound))

\* A plausible slip: the outputs of the multiplications are narrowed along
\* with the accumulators.
minimize_accumulator_width_and_outputs ==
    /\ pc = "idle"
    /\ last_op' = "minimize_accumulator_width"
    /\ nodeattr' =
          [nodeattr EXCEPT
              !.AccQKMatMul =
                  AccType(nodeattr.QKDim, nodeattr.QType, nodeattr.KType),
              !.OutQKMatMul =
                  AccType(nodeattr.QKDim, nodeattr.QType, nodeattr.KType),
              !.AccAVMatMul =
                  AccType(nodeattr.VDim, nodeattr.AType, nodeattr.VType)]
    /\ outcome' = "ok"
    /\ UNCHANGED <<mask, result>>
    /\ UNCHANGED <<tensor_datatype, warnings, context_out, files, sim_runs,
                   code_gen_dict, pc, ind, code_gen_dir>>

minimize_accumulator_width ==
    /\ pc = "idle"
    /\ last_op' = "minimize_accumulator_width"
    /\ nodeattr' =
          [nodeattr EXCEPT
              !.AccQKMatMul =
                  AccType(nodeattr.QKDim, nodeattr.QType, nodeattr.KType),
              !.AccAVMatMul =
                  AccType(nodeattr.VDim, nodeattr.AType, nodeattr.VType)]
    /\ outcome' = "ok"
    /\ UNCHANGED <<mask, result>>
    /\ UNCHANGED <<tensor_datatype, warnings, context_out, files, sim_runs,
                   code_gen_dict, pc, ind, code_gen_dir>>

---------------------------------------------------------------------------
(* Code emission: each method stores its fragment, a list of lines, under  *)
(* its key of the code generation dictionary.  None of them looks at       *)
(* is_valid_folding.                                                       *)

\* self.code_gen_dict[key] = lines
Emitted(dict, key, lines) ==
    [k \in DOMAIN dict \cup {key} |-> IF k = key THEN lines ELSE dict[k]]

Emit(op, key, lines) ==
    /\ last_op' = op
    /\ code_gen_dict' = Emitted(code_gen_dict, key, lines)
    /\ outcome' = "ok"
    /\ UNCHANGED <<mask, result>>
    /\ UNCHANGED <<nodeattr, tensor_datatype, warnings, context_out, files,
                   sim_runs, pc, ind, code_gen_dir>>

\* shapedefs(*names)
shapedefs(self, names) ==
    [i \in DOMAIN names |->
        "static constexpr std::size_t " \o names[i] \o " = "
            \o ToString(self[names[i]]) \o ";"]

\* typedefs(*names)
typedefs(self, names) ==
    [i \in DOMAIN names |->
        "using " \o names[i] \o " = "
            \o HlsTypeStr(DataType(self[names[i]])) \o ";"]

\* A plausible slip: the softmax activation is passed before the
\* activation of the second multiplication.
attention_template_args_swapped ==
    <<"QKDim", "QLen", "VDim", "KVLen", "EmbFold", "SeqFold",
      "QType", "KType", "VType", "MType", "AType", "OType",
      "AccQKMatMul", "OutQKMatMul", "ActQKMatMul",
      "AccAVMatMul", "OType", "ActASoftmax",
      "ActAVMatMul">>

\* The template arguments of the Attention alias, as the source lists
\* them: the output of the second multiplication is passed as OType.
attention_template_args ==
    <<"QKDim", "QLen", "VDim", "KVLen", "EmbFold", "SeqFold",
      "QType", "KType", "VType", "MType", "AType", "OType",
      "AccQKMatMul", "OutQKMatMul", "ActQKMatMul",
      "AccAVMatMul", "OType", "ActAVMatMul",
      "ActASoftmax">>

\* One line per template argument, all but the last followed by a comma.
template_arg_lines(names) ==
    [i \in DOMAIN names |->
        "    " \o names[i] \o (IF i < Len(names) THEN "," ELSE "")]

\* The lines of $DEFINES$.
defines_lines(self) ==
    shapedefs(self, <<"QKDim", "QLen", "VDim", "KVLen", "EmbFold",
                      "SeqFold">>)
    \o typedefs(self, <<"QType", "KType", "VType", "MType", "AType",
                        "OType">>)
    \o typedefs(self, <<"AccQKMatMul", "OutQKMatMul", "AccAVMatMul",
                        "OutAVMatMul">>)
    \o <<"using ActQKMatMul = " \o self.ActQKMatMul \o ";",
         "using ActAVMatMul = " \o self.ActAVMatMul \o ";",
         "using ActASoftmax = " \o self.ActASoftmax \o ";",
         "using Attention = ScaledDotProductAttention<">>
    \o template_arg_lines(attention_template_args)
    \o <<">;",
         "using QStream = Attention::QStream;",
         "using KStream = Attention::KStream;",
         "using VStream = Attention::VStream;",
         "using OStream = Attention::OStream;",
         "using MStream = Attention::MStream;">>

defines ==
    /\ pc = "idle"
    /\ Emit("defines", "$DEFINES$", defines_lines(nodeattr))

\* The statements reading one input file into its stream.
npy2apintstream(role, stream, dir) ==
    <<"using " \o role \o "Packed = decltype(" \o role \o "Stream{}.read());",
      "npy2apintstream<" \o role \o "Packed, " \o role \o "Type, "
          \o role \o "Type::width, float>(",
      "  \"" \o dir \o "/" \o stream \o ".npy\", " \o stream \o ", false",
      ");">>

\* The lines of $READNPYDATA$.
read_npy_data_lines(self) ==
    npy2apintstream("Q", "q", "code_gen_dir_cppsim")
    \o npy2apintstream("K", "k", "code_gen_dir_cppsim")
    \o npy2apintstream("V", "v", "code_gen_dir_cppsim")
    \o (IF self.mask_mode = "input"
        THEN npy2apintstream("M", "m", "code_gen_dir_cppsim") ELSE <<>>)

read_npy_data ==
    /\ pc = "idle"
    /\ Emit("read_npy_data", "$READNPYDATA$", read_npy_data_lines(nodeattr))

\* The lines of $STREAMDECLARATIONS$.
strm_decl_lines(self) ==
    <<"QStream q;", "KStream k;", "VStream v;", "OStream out;">>
    \o (IF self.mask_mode = "input" THEN <<"MStream m;">> ELSE <<>>)

strm_decl ==
    /\ pc = "idle"
    /\ Emit("strm_decl", "$STREAMDECLARATIONS$", strm_decl_lines(nodeattr))

\* The lines of $DOCOMPUTE$.
docompute_lines ==
    <<"Attention attention(q, k, v);",
      "for(std::size_t i = 0; i < QLen * EmbFold; ++i) {",
      "    out.write(attention.out.read());",
      "}">>

docompute ==
    /\ pc = "idle"
    /\ Emit("docompute", "$DOCOMPUTE$", docompute_lines)

\* The lines of $DATAOUTSTREAM$.
dataoutstrm_lines(self) ==
    LET folded == get_folded_output_shape(self)
        shape == "{" \o ToString(folded[1]) \o "," \o ToString(folded[2])
                     \o "," \o ToString(folded[3]) \o "}"
    IN  <<"using OPacked = decltype(OStream{}.read());",
          "apintstream2npy<OPacked, OType, OType::width, float>(",
          "  out, " \o shape \o ", \"code_gen_dir_cppsim/out.npy\", false",
          ");">>

dataoutstrm ==
    /\ pc = "idle"
    /\ Emit("dataoutstrm", "$DATAOUTSTREAM$", dataoutstrm_lines(nodeattr))

\* The lines of $PRAGMAS$.
pragmas_lines ==
    <<"#pragma HLS INTERFACE axis port=q",
      "#pragma HLS INTERFACE axis port=k",
      "#pragma HLS INTERFACE axis port=v",
      "#pragma HLS INTERFACE axis port=out">>
    \o <<"#pragma HLS INTERFACE ap_ctrl_none port=return">>

pragmas ==
    /\ pc = "idle"
    /\ Emit("pragmas", "$PRAGMAS$", pragmas_lines)

EmissionOps ==
    {"defines", "read_npy_data", "strm_decl", "docompute", "dataoutstrm",
     "pragmas"}

emit ==
    \/ defines
    \/ read_npy_data
    \/ strm_decl
    \/ docompute
    \/ dataoutstrm
    \/ pragmas

---------------------------------------------------------------------------
(* Shape queries.  A call records the operation, its index argument and    *)
(* what it returned or raised in result; nothing else changes.             *)

\* The indices a caller may pass: the roles 0..3, indices past the end and
\* negative ones.
RoleIndices == (-5)..4

Answer(op, arg, r) ==
    [op |-> op, arg |-> arg, raised |-> r.raised, value |-> r.shape]

QueryFrame ==
    UNCHANGED <<nodeattr, tensor_datatype, warnings, context_out, files,
                sim_runs, code_gen_dict, pc, ind, code_gen_dir, last_op,
                outcome, mask>>

call_get_folded_input_shape ==
    /\ pc = "idle"
    /\ \E i \in RoleIndices :
           result' = Answer("get_folded_input_shape", i,
                            get_folded_input_shape(nodeattr, i))
    /\ QueryFrame

call_get_folded_output_shape ==
    /\ pc = "idle"
    /\ result' = Answer("get_folded_output_shape", 0,
                        Returned(get_folded_output_shape(nodeattr)))
    /\ QueryFrame

call_get_folded_attention_shape ==
    /\ pc = "idle"
    /\ result' = Answer("get_folded_attention_shape", 0,
                        Returned(get_folded_attention_shape(nodeattr)))
    /\ QueryFrame

shape_query ==
    \/ call_get_folded_input_shape
    \/ call_get_folded_output_shape
    \/ call_get_folded_attention_shape

---------------------------------------------------------------------------
(* Stream widths.  A width query returns [raised, width].                  *)

Width(w) == [raised |-> "", width |-> w]
NoWidth(exc) == [raised |-> exc, width |-> 0]

\* get_nodeattr: the value of a declared attribute; a name that
\* get_nodeattr_types does not declare raises AttributeError.
get_nodeattr(self, name) ==
    IF name \in DOMAIN self
    THEN [raised |-> "", value |-> self[name]]
    ELSE [raised |-> "AttributeError", value |-> ""]

\* get_input_datatype: the attribute f"{inputs[ind]}Type", where inputs is
\* ["Q", "K", "V"] and, with a mask input, also "mask".
get_input_datatype(self, i) ==
    LET inputs == <<"Q", "K", "V">>
                  \o (IF self.mask_mode = "input" THEN <<"mask">> ELSE <<>>)
        n == Len(inputs)
        name == IF 0 <= i /\ i < n THEN inputs[i + 1] ELSE inputs[n + i + 1]
    IN  IF ~(-n <= i /\ i < n)
        THEN [raised |-> "IndexError", value |-> ""]
        ELSE get_nodeattr(self, name \o "Type")

\* get_output_datatype
get_output_datatype(self) == get_nodeattr(self, "O" \o "Type")

\* get_instream_width: bits of the datatype times the elements of the last
\* dimension of the folded input.
get_instream_width(self, i) ==
    LET dtype == get_input_datatype(self, i)
        folded == get_folded_input_shape(self, i)
    IN  IF dtype.raised # "" THEN NoWidth(dtype.raised)
        ELSE IF folded.raised # "" THEN NoWidth(folded.raised)
        ELSE Width(folded.shape[3] * DataType(dtype.value).bitwidth)

\* get_outstream_width
get_outstream_width(self) ==
    LET o_bits == DataType(get_output_datatype(self).value).bitwidth
        elems == get_folded_output_shape(self)[3]
    IN  Width(elems * o_bits)

\* max(...) of Python, over a non-empty set of integers.
MaxOf(S) == CHOOSE x \in S : \A y \in S : y <= x

\* A plausible slip: the tiles of the key and value matrices are left out
\* of the maximum.
get_ap_int_max_w_no_tiles(self) ==
    LET i_widths == [i \in 0..2 |-> get_instream_width(self, i)]
        masked == self.mask_mode \in {"input", "causal"}
        m_folded == get_folded_input_shape(self, 3)
        i_bits_max == MaxOf({i_widths[i].width : i \in 0..2})
        o_bits_max == get_outstream_width(self).width
        m_bits == IF masked
                  THEN m_folded.shape[3] * DataType(self.MType).bitwidth
                  ELSE 0
        o_elems == get_folded_input_shape(self, 2).shape[3]
        s_elems == get_folded_attention_shape(self)[3]
        a_bits == s_elems * DataType(self.AType).bitwidth
        acc_bits_max == MaxOf({DataType(self.AccQKMatMul).bitwidth,
                               DataType(self.AccAVMatMul).bitwidth})
        out_bits_max ==
            MaxOf({s_elems * DataType(self.OutQKMatMul).bitwidth,
                   o_elems * DataType(self.OutAVMatMul).bitwidth})
        matmul_bits_max == MaxOf({acc_bits_max, out_bits_max})
    IN  IF masked /\ m_folded.raised # "" THEN NoWidth(m_folded.raised)
        ELSE Width(MaxOf({i_bits_max, o_bits_max, m_bits, a_bits,
                          matmul_bits_max}))

\* get_ap_int_max_w: the widest of the input and output streams, the mask,
\* the attention weights, the key and value tiles, the accumulators and
\* the matmul outputs.  The statements run in source order, so an
\* exception of the mask's folded shape ends the call.
get_ap_int_max_w(self) ==
    LET i_widths == [i \in 0..2 |-> get_instream_width(self, i)]
        masked == self.mask_mode \in {"input", "causal"}
        m_folded == get_folded_input_shape(self, 3)
        i_bits_max == MaxOf({i_widths[i].width : i \in 0..2})
        o_bits_max == get_outstream_width(self).width
        m_bits == IF masked
                  THEN m_folded.shape[3] * DataType(self.MType).bitwidth
                  ELSE 0
        i_elems == get_folded_input_shape(self, 1).shape[3]
        o_elems == get_folded_input_shape(self, 2).shape[3]
        s_elems == get_folded_attention_shape(self)[3]
        a_bits == s_elems * DataType(self.AType).bitwidth
        tile_bits_max ==
            MaxOf({i_elems * s_elems * DataType(self.KType).bitwidth,
                   o_elems * s_elems * DataType(self.VType).bitwidth})
        acc_bits_max == MaxOf({DataType(self.AccQKMatMul).bitwidth,
                               DataType(self.AccAVMatMul).bitwidth})
        out_bits_max ==
            MaxOf({s_elems * DataType(self.OutQKMatMul).bitwidth,
                   o_elems * DataType(self.OutAVMatMul).bitwidth})
        matmul_bits_max == MaxOf({tile_bits_max, acc_bits_max, out_bits_max})
    IN  IF masked /\ m_folded.raised # "" THEN NoWidth(m_folded.raised)
        ELSE Width(MaxOf({i_bits_max, o_bits_max, m_bits, a_bits,
                          matmul_bits_max}))

WidthAnswer(op, arg, r) ==
    [op |-> op, arg |-> arg, raised |-> r.raised,
     value |-> IF r.raised = "" THEN <<r.width>> ELSE <<>>]

call_get_instream_width ==
    /\ pc = "idle"
    /\ \E i \in RoleIndices :
           result' = WidthAnswer("get_instream_width", i,
                                 get_instream_width(nodeattr, i))
    /\ QueryFrame

call_get_outstream_width ==
    /\ pc = "idle"
    /\ result' = WidthAnswer("get_outstream_width", 0,
                             get_outstream_width(nodeattr))
    /\ QueryFrame

call_get_ap_int_max_w ==
    /\ pc = "idle"
    /\ result' = WidthAnswer("get_ap_int_max_w", 0,
                             get_ap_int_max_w(nodeattr))
    /\ QueryFrame

width_query ==
    \/ call_get_instream_width
    \/ call_get_outstream_width
    \/ call_get_ap_int_max_w

---------------------------------------------------------------------------
(* Specifications.                                                         *)

\* No shape or width query has been made yet.
NoResult == [op |-> "", arg |-> 0, raised |-> "", value |-> <<>>]

\* A freshly declared operator: nothing inferred, executed or emitted yet.
Fresh ==
    /\ warnings = <<>>
    /\ context_out = "absent"
    /\ files = {}
    /\ sim_runs = 0
    /\ code_gen_dict = <<>>
    /\ pc = "idle"
    /\ ind = 0
    /\ code_gen_dir = ""
    /\ last_op = "declare"
    /\ outcome = "ok"
    /\ mask = NoMask
    /\ result = NoResult

\* The tensors of the node, and annotations that agree with the attributes.
Tensors == {"in0", "in1", "in2", "in3", "out0"}

AgreeingAnnotations(self) ==
    [t \in Tensors |->
        DataType(CASE t = "in0" -> self.QType
                   [] t = "in1" -> self.KType
                   [] t = "in2" -> self.VType
                   [] t = "in3" -> self.MType
                   [] OTHER -> self.OType)]

\* Every shape, fold, mask mode and exec mode.
ExecConfigs ==
    {[DefaultAttrs EXCEPT !.QKDim = qkdim, !.QLen = qlen, !.VDim = vdim,
                          !.KVLen = kvlen, !.EmbFold = embfold,
                          !.SeqFold = seqfold, !.mask_mode = mmode,
                          !.exec_mode = mode] :
        qkdim \in 1..MaxDim, qlen \in 1..MaxDim, vdim \in 1..MaxDim,
        kvlen \in 1..MaxDim, embfold \in 1..MaxFold, seqfold \in 1..MaxFold,
        mmode \in MaskModes, mode \in ExecModes}

InitExec ==
    /\ nodeattr \in ExecConfigs
    /\ tensor_datatype = AgreeingAnnotations(nodeattr)
    /\ Fresh

SpecExec == InitExec /\ [][execute_node]_vars

\* The operand types of the accumulator analysis: every signed and
\* unsigned type of 2..MaxBits bits, and the 8-bit unsigned type.
AccOperandTypes ==
    {IntTypeName(s, w) : s \in BOOLEAN, w \in 2..MaxBits} \cup {"UINT8"}

\* The contraction lengths of the accumulator analysis.
AccDims == (1..MaxDim) \cup {64}

AccConfigs ==
    {[DefaultAttrs EXCEPT !.QKDim = qkdim, !.VDim = vdim, !.QType = qtype,
                          !.KType = ktype, !.VType = vtype,
                          !.AType = atype] :
        qkdim \in AccDims, vdim \in AccDims, qtype \in AccOperandTypes,
        ktype \in AccOperandTypes, vtype \in AccOperandTypes,
        atype \in AccOperandTypes}

InitAcc ==
    /\ nodeattr \in AccConfigs
    /\ tensor_datatype = AgreeingAnnotations(nodeattr)
    /\ Fresh

SpecAcc == InitAcc /\ [][minimize_accumulator_width]_vars

\* Stored and observed datatypes of the datatype inference, per role.
QTypes == {"UINT8", "INT16"}
KVTypes == {"UINT8", "INT8"}
MTypes == {"UINT8", "INT4"}
OTypes == {"UINT8", "INT16"}

InferConfigs ==
    {[DefaultAttrs EXCEPT !.QKDim = dim, !.VDim = dim, !.QType = qtype,
                          !.KType = ktype, !.VType = vtype,
                          !.OType = otype, !.mask_mode = mmode] :
        dim \in 1..MaxDim, qtype \in QTypes, ktype \in KVTypes,
        vtype \in KVTypes, otype \in OTypes, mmode \in MaskModes}

InferAnnotations ==
    {[t \in Tensors |->
        DataType(CASE t = "in0" -> q
                   [] t = "in1" -> k
                   [] t = "in2" -> v
                   [] t = "in3" -> m
                   [] OTHER -> o)] :
        q \in QTypes, k \in KVTypes, v \in KVTypes, m \in MTypes,
        o \in OTypes}

InitInfer ==
    /\ nodeattr \in InferConfigs
    /\ tensor_datatype \in InferAnnotations
    /\ Fresh

SpecInfer ==
    InitInfer /\ [][infer_node_datatype \/ minimize_accumulator_width]_vars

\* The configurations of the code emission: the embedding dimensions,
\* their fold and the mask mode vary.
EmitConfigs ==
    {[DefaultAttrs EXCEPT !.QKDim = qkdim, !.VDim = vdim,
                          !.EmbFold = embfold, !.mask_mode = mmode] :
        qkdim \in 1..MaxDim, vdim \in 1..MaxDim, embfold \in 1..MaxFold,
        mmode \in MaskModes}

InitEmit ==
    /\ nodeattr \in EmitConfigs
    /\ tensor_datatype = AgreeingAnnotations(nodeattr)
    /\ Fresh

SpecEmit == InitEmit /\ [][emit]_vars

\* The shape queries, from every shape, fold and mask mode.
ShapeConfigs == {c \in ExecConfigs : c.exec_mode = ""}

InitShape ==
    /\ nodeattr \in ShapeConfigs
    /\ tensor_datatype = AgreeingAnnotations(nodeattr)
    /\ Fresh

SpecShape == InitShape /\ [][shape_query]_vars

\* The width queries: the dimensions the widths depend on, the folds, the
\* mask mode and datatypes of different widths per role, and the
\* configuration QLen = 4, KVLen = 8, QKDim = 16, EmbFold = 4 with 4-bit
\* unsigned queries.
WidthQTypes == {"UINT4", "INT16"}
WidthKTypes == {"UINT8", "INT16"}
WidthMTypes == {"UINT8", "INT4"}
WidthATypes == {"UINT8", "INT16"}

WidthConfigs ==
    {[DefaultAttrs EXCEPT !.QKDim = qkdim, !.VDim = vdim, !.KVLen = kvlen,
                          !.EmbFold = embfold, !.SeqFold = seqfold,
                          !.mask_mode = mmode, !.QType = qtype,
                          !.KType = ktype, !.MType = mtype,
                          !.AType = atype] :
        qkdim \in 1..MaxDim, vdim \in 1..MaxDim, kvlen \in 1..MaxDim,
        embfold \in 1..MaxFold, seqfold \in 1..MaxFold,
        mmode \in MaskModes, qtype \in WidthQTypes, ktype \in WidthKTypes,
        mtype \in WidthMTypes, atype \in WidthATypes}
    \cup {[DefaultAttrs EXCEPT !.QLen = 4, !.KVLen = 8, !.QKDim = 16,
                               !.VDim = 16, !.EmbFold = 4,
                               !.QType = "UINT4"]}

InitWidth ==
    /\ nodeattr \in WidthConfigs
    /\ tensor_datatype = AgreeingAnnotations(nodeattr)
    /\ Fresh

SpecWidth == InitWidth /\ [][width_query]_vars

\* Every operation, from the smallest configurations.
Init ==
    /\ nodeattr \in {[DefaultAttrs EXCEPT !.QKDim = qkdim,
                                          !.EmbFold = embfold,
                                          !.mask_mode = mmode,
                                          !.exec_mode = mode] :
                        qkdim \in 1..2, embfold \in 1..2,
                        mmode \in {"none", "input"},
                        mode \in {"python", "rtlsim"}}
    /\ tensor_datatype = AgreeingAnnotations(nodeattr)
    /\ Fresh

Next ==
    \/ infer_node_datatype
    \/ minimize_accumulator_width
    \/ execute_node
    \/ emit

Spec == Init /\ [][Next]_vars

---------------------------------------------------------------------------
(* Properties of is_valid_folding and execute_node, checked under SpecExec. *)

Divides(d, n) == \E m \in 1..n : n = m * d

FoldsDivide(self) ==
    /\ Divides(self.EmbFold, self.QKDim)
    /\ Divides(self.EmbFold, self.VDim)
    /\ Divides(self.SeqFold, self.KVLen)

Returned_execute_node == last_op = "execute_node" /\ pc = "idle"

\* C1: is_valid_folding is true if and only if EmbFold divides QKDim and VDim
\* and SeqFold divides KVLen (all remainders zero); the value of QLen never
\* changes the result; execute_node raises its assertion exactly on the
\* foldings that are not valid.
C1_ValidFoldingIffDivisible ==
    /\ is_valid_folding(nodeattr) <=> FoldsDivide(nodeattr)
    /\ is_valid_folding(nodeattr) <=>
          /\ nodeattr.QKDim % nodeattr.EmbFold = 0
          /\ nodeattr.VDim % nodeattr.EmbFold = 0
          /\ nodeattr.KVLen % nodeattr.SeqFold = 0
    /\ \A qlen \in 1..(MaxDim + 1) :
          is_valid_folding([nodeattr EXCEPT !.QLen = qlen])
              = is_valid_folding(nodeattr)
    /\ Returned_execute_node =>
          (outcome = "AssertionError" <=> ~FoldsDivide(nodeattr))

\* C1 witness: execute_node refused a folding whose only mismatch is VDim.
C1_Witness ==
    /\ Returned_execute_node
    /\ outcome = "AssertionError"
    /\ nodeattr.QKDim % nodeattr.EmbFold = 0
    /\ nodeattr.KVLen % nodeattr.SeqFold = 0
    /\ nodeattr.VDim % nodeattr.EmbFold # 0
    /\ nodeattr.QLen > 1

KnownExecModes == {"python", "cppsim", "rtlsim"}

\* C7: with a valid folding and an exec_mode that is none of python, cppsim,
\* rtlsim, execute_node ends in the invalid exec_mode error, and up to and
\* at that point no output tensor is in the context, no array file has been
\* written and no simulation has run.
C7_InvalidModeWritesNothing ==
    (is_valid_folding(nodeattr) /\ nodeattr.exec_mode \notin KnownExecModes)
    => /\ context_out = "absent"
       /\ files = {}
       /\ sim_runs = 0
       /\ pc \in {"idle", "select_dir"}
       /\ Returned_execute_node => outcome = "Exception"

\* C7 witness: execute_node has failed on the mode string "bogus".
C7_Witness ==
    /\ is_valid_folding(nodeattr)
    /\ nodeattr.exec_mode = "bogus"
    /\ Returned_execute_node
    /\ outcome = "Exception"

\* C8: with an invalid folding execute_node fails on its assertion in every
\* exec_mode, before any array file is written, before the simulation is
\* invoked and before the context is modified, and it leaves the node
\* attributes as they are.
C8_InvalidFoldingFailsFirst ==
    /\ [](~is_valid_folding(nodeattr)
          => /\ files = {}
             /\ sim_runs = 0
             /\ context_out = "absent"
             /\ pc = "idle"
             /\ Returned_execute_node => outcome = "AssertionError")
    /\ [][~is_valid_folding(nodeattr) => nodeattr' = nodeattr]_vars

\* C8 witness: execute_node has failed on an invalid folding in mode cppsim.
C8_Witness ==
    /\ ~is_valid_folding(nodeattr)
    /\ nodeattr.exec_mode = "cppsim"
    /\ Returned_execute_node
    /\ outcome = "AssertionError"

\* C10: with exec_mode rtlsim and a valid folding, execute_node ends in
\* NotImplementedError whenever it ends, never returns normally and never
\* writes the output tensor into the context.
C10_RtlsimNotImplemented ==
    (is_valid_folding(nodeattr) /\ nodeattr.exec_mode = "rtlsim")
    => /\ context_out = "absent"
       /\ sim_runs = 0
       /\ Returned_execute_node => outcome = "NotImplementedError"

\* C10 witness: an rtlsim call has saved its inputs and then failed.
C10_Witness ==
    /\ is_valid_folding(nodeattr)
    /\ nodeattr.exec_mode = "rtlsim"
    /\ nodeattr.mask_mode = "input"
    /\ Returned_execute_node
    /\ outcome = "NotImplementedError"
    /\ NpyFile("code_gen_dir_ipgen", "m") \in files

---------------------------------------------------------------------------
(* Properties of minimize_accumulator_width, checked under SpecAcc.        *)

Returned_minimize == last_op = "minimize_accumulator_width"

\* The four products of the extrema of two datatypes.
ExtremeProducts(ltype, rtype) ==
    {l * r : l \in {TypeMin(DataType(ltype)), TypeMax(DataType(ltype))},
             r \in {TypeMin(DataType(rtype)), TypeMax(DataType(rtype))}}

\* The least and the greatest sum of dim products l * r of elements of the
\* two datatypes (each is reached by dim equal products).
LeastSum(dim, ltype, rtype) ==
    dim * (CHOOSE p \in ExtremeProducts(ltype, rtype) :
              \A o \in ExtremeProducts(ltype, rtype) : p <= o)

GreatestSum(dim, ltype, rtype) ==
    dim * (CHOOSE p \in ExtremeProducts(ltype, rtype) :
              \A o \in ExtremeProducts(ltype, rtype) : p >= o)

Representable(acc, v) ==
    TypeMin(DataType(acc)) <= v /\ v <= TypeMax(DataType(acc))

\* C2: after minimize_accumulator_width, every sum of QKDim products of a
\* QType and a KType element is representable in AccQKMatMul, and every sum
\* of VDim products of an AType and a VType element in AccAVMatMul.
C2_AccumulatorsHoldEverySum ==
    Returned_minimize
    => /\ Representable(nodeattr.AccQKMatMul,
             LeastSum(nodeattr.QKDim, nodeattr.QType, nodeattr.KType))
       /\ Representable(nodeattr.AccQKMatMul,
             GreatestSum(nodeattr.QKDim, nodeattr.QType, nodeattr.KType))
       /\ Representable(nodeattr.AccAVMatMul,
             LeastSum(nodeattr.VDim, nodeattr.AType, nodeattr.VType))
       /\ Representable(nodeattr.AccAVMatMul,
             GreatestSum(nodeattr.VDim, nodeattr.AType, nodeattr.VType))

\* max(-min, 1 + max) with min = dim * ltype.min * rtype.min and
\* max = dim * ltype.max * rtype.max.
RangeBound(dim, ltype, rtype) ==
    LET lo == dim * TypeMin(DataType(ltype)) * TypeMin(DataType(rtype))
        hi == dim * TypeMax(DataType(ltype)) * TypeMax(DataType(rtype))
    IN  IF -lo > 1 + hi THEN -lo ELSE 1 + hi

\* w = ceil(log2(bound)) + 1: 2^(w-1) is the least power of two that is
\* at least bound.
IsCeilLog2PlusOne(w, bound) ==
    /\ w >= 1
    /\ 2 ^ (w - 1) >= bound
    /\ w >= 2 => 2 ^ (w - 2) < bound

IsUintOfWidth(acc, bound) ==
    /\ ~DataType(acc).signed
    /\ acc = "UINT" \o ToString(DataType(acc).bitwidth)
    /\ IsCeilLog2PlusOne(DataType(acc).bitwidth, bound)

\* C3: minimize_accumulator_width stores AccQKMatMul = UINT<w> with
\* w = ceil(log2(max(-qkMin, 1 + qkMax))) + 1, and AccAVMatMul by the same
\* formula from VDim, AType, VType; QKDim = 64 with unsigned 8-bit QType and
\* KType gives UINT23; a bound that is a power of two 2^k gives k + 1 bits.
C3_AccumulatorWidthFormula ==
    Returned_minimize
    => /\ IsUintOfWidth(nodeattr.AccQKMatMul,
             RangeBound(nodeattr.QKDim, nodeattr.QType, nodeattr.KType))
       /\ IsUintOfWidth(nodeattr.AccAVMatMul,
             RangeBound(nodeattr.VDim, nodeattr.AType, nodeattr.VType))
       /\ (nodeattr.QKDim = 64 /\ nodeattr.QType = "UINT8"
           /\ nodeattr.KType = "UINT8") => nodeattr.AccQKMatMul = "UINT23"
       /\ \A k \in 0..30 :
             RangeBound(nodeattr.VDim, nodeattr.AType, nodeattr.VType) = 2 ^ k
             => nodeattr.AccAVMatMul = "UINT" \o ToString(k + 1)

\* C3 witness: the UINT23 example on the query-key side, and a bound that
\* is a power of two (1 + 1 * 1 * 1 = 2) on the attention-value side.
C3_Witness ==
    /\ Returned_minimize
    /\ nodeattr.QKDim = 64
    /\ nodeattr.QType = "UINT8"
    /\ nodeattr.KType = "UINT8"
    /\ nodeattr.AccQKMatMul = "UINT23"
    /\ nodeattr.VDim = 1
    /\ nodeattr.AType = "INT2"
    /\ nodeattr.VType = "INT2"
    /\ nodeattr.AccAVMatMul = "UINT2"

---------------------------------------------------------------------------
(* Properties of infer_node_datatype, checked under SpecInfer.             *)

Returned_infer == last_op = "infer_node_datatype"

\* The step is a call of infer_node_datatype.
InferStep == last_op' = "infer_node_datatype"

Occurrences(seq, x) == Cardinality({i \in DOMAIN seq : seq[i] = x})

\* After the step the attribute equals the observed datatype of the tensor,
\* and the step warned about the attribute once if the two differed before
\* it and not at all if they agreed.
Reconciled(attr, tensor) ==
    /\ nodeattr'[attr] = tensor_datatype[tensor].name
    /\ Occurrences(warnings', attr) =
          IF tensor_datatype[tensor].name # nodeattr[attr] THEN 1 ELSE 0

\* C4: every call of infer_node_datatype leaves QType, KType, VType equal to
\* the observed datatypes of the first three inputs, warns exactly once for
\* each of these roles that differed and for no other of them, and
\* completes without error.
C4_InputRolesReconciled ==
    [][InferStep
       => /\ Reconciled("QType", "in0")
          /\ Reconciled("KType", "in1")
          /\ Reconciled("VType", "in2")
          /\ outcome' = "ok"]_vars

\* C5: with mask_mode "input" every call of infer_node_datatype completes
\* without error, leaves MType equal to the observed datatype of the fourth
\* input, warns about MType iff the two differed, and sets the datatype of
\* the output tensor from OType.
C5_MaskRoleReconciled ==
    [][(InferStep /\ nodeattr.mask_mode = "input")
       => /\ outcome' = "ok"
          /\ Reconciled("MType", "in3")
          /\ tensor_datatype'["out0"].name = nodeattr'.OType]_vars

\* C6: no call of infer_node_datatype or minimize_accumulator_width changes
\* OType; the only change infer_node_datatype makes to the model is to set
\* the datatype of the output tensor to the stored OType, which it has done
\* whenever it completes.
C6_OutputTypeNeverOverwritten ==
    [][/\ nodeattr'.OType = nodeattr.OType
       /\ tensor_datatype' # tensor_datatype
          => tensor_datatype' =
                [tensor_datatype EXCEPT !["out0"] = DataType(nodeattr.OType)]
       /\ (InferStep /\ outcome' = "ok")
          => tensor_datatype'["out0"].name = nodeattr.OType]_vars

\* C6 witness: a completed inference that changed all three input roles
\* to datatypes other than OType and asserted OType on the output.
C6_Witness ==
    /\ Returned_infer
    /\ outcome = "ok"
    /\ warnings = <<"QType", "KType", "VType">>
    /\ nodeattr.OType = "INT16"
    /\ nodeattr.QType = "UINT8"
    /\ tensor_datatype["in0"].name = "UINT8"
    /\ tensor_datatype["out0"].name = "INT16"
    /\ nodeattr.AccQKMatMul # "UINT32"

---------------------------------------------------------------------------
(* Properties of the code emission, checked under SpecEmit.                *)

---------------------------------------------------------------------------
(* Folded shapes (SpecShape).                                              *)

\* The normal shape of each role: queries are QLen x QKDim, keys KVLen x
\* QKDim, values KVLen x VDim, the mask and the attention weights QLen x
\* KVLen, the output QLen x VDim.
RoleShape(self, role) ==
    CASE role = "Q" -> <<self.QLen, self.QKDim>>
      [] role = "K" -> <<self.KVLen, self.QKDim>>
      [] role = "V" -> <<self.KVLen, self.VDim>>
      [] role = "M" -> <<self.QLen, self.KVLen>>
      [] role = "A" -> <<self.QLen, self.KVLen>>
      [] role = "O" -> <<self.QLen, self.VDim>>

\* The role a returned shape query was about.
QueriedRole ==
    IF result.op = "get_folded_input_shape"
    THEN <<"Q", "K", "V", "M">>[result.arg + 1]
    ELSE IF result.op = "get_folded_output_shape" THEN "O"
    ELSE "A"

RoleFold(self, role) ==
    IF role \in {"M", "A"} THEN self.SeqFold ELSE self.EmbFold

\* folded is (outer, fold, lanes) and unfolds to the normal shape.
Unfolds(folded, normal, fold) ==
    /\ Len(folded) = 3
    /\ folded[2] = fold
    /\ <<folded[1], folded[2] * folded[3]>> = normal

ShapeReturned ==
    /\ result.op \in {"get_folded_input_shape", "get_folded_output_shape",
                      "get_folded_attention_shape"}
    /\ result.raised = ""

\* C11: under a valid folding every folded shape a query returns, for the
\* query, key, value, mask, attention-weights and output role, is (outer,
\* fold, lanes) with (outer, fold * lanes) the normal shape of the role, the
\* fold being EmbFold for query, key, value and output and SeqFold for the
\* mask and the attention weights; and the mask role returns a shape only in
\* mask_mode "input".
C11_FoldingInvertible ==
    (is_valid_folding(nodeattr) /\ ShapeReturned) =>
        /\ Unfolds(result.value, RoleShape(nodeattr, QueriedRole),
                   RoleFold(nodeattr, QueriedRole))
        /\ QueriedRole = "M" => nodeattr.mask_mode = "input"

\* A mask folded two ways along a sequence of length two, while the
\* embedding fold is one.
C11_Witness ==
    /\ ShapeReturned
    /\ result.op = "get_folded_input_shape"
    /\ result.arg = 3
    /\ is_valid_folding(nodeattr)
    /\ nodeattr.SeqFold = 2
    /\ nodeattr.EmbFold = 1
    /\ result.value = <<nodeattr.QLen, 2, 1>>

\* An index names no active role: it lies outside 0..3, or it is 3 while no
\* mask is provided as an input.
InactiveRole(self, i) ==
    \/ i \notin 0..3
    \/ i = 3 /\ self.mask_mode \in {"none", "causal"}

\* C12: get_folded_input_shape called with the index of a role that is not
\* active (3 in mask_mode "none" or "causal", any index outside 0..3,
\* negative ones included) raises and returns no shape.
C12_InactiveRoleFails ==
    (result.op = "get_folded_input_shape"
     /\ InactiveRole(nodeattr, result.arg)) =>
        (result.raised \in {"IndexError", "Exception"}
         /\ result.value = <<>>)

\* Index -1 names the last entry of the list of input shapes, and the call
\* still raises.
C12_Witness ==
    /\ result.op = "get_folded_input_shape"
    /\ result.arg = -1
    /\ nodeattr.mask_mode = "input"
    /\ get_normal_input_shape(nodeattr, -1).raised = ""
    /\ result.raised = "Exception"


---------------------------------------------------------------------------
(* Stream widths (SpecWidth).                                              *)

Bits(name) == DataType(name).bitwidth

\* The lanes and the stored datatype of the input role at an index.
InputLanes(self, i) ==
    CASE i = 0 -> self.QKDim \div self.EmbFold
      [] i = 1 -> self.QKDim \div self.EmbFold
      [] i = 2 -> self.VDim \div self.EmbFold
      [] i = 3 -> self.KVLen \div self.SeqFold

InputType(self, i) ==
    CASE i = 0 -> self.QType
      [] i = 1 -> self.KType
      [] i = 2 -> self.VType
      [] i = 3 -> self.MType

ActiveInput(self, i) ==
    i \in 0..2 \/ (i = 3 /\ self.mask_mode = "input")

\* C13: get_instream_width of an active input role (query, key, value, and
\* the mask at index 3 in mask_mode "input") returns lanes times bits of
\* the stored datatype, the mask's being (KVLen / SeqFold) * bits(MType);
\* get_outstream_width returns (VDim / EmbFold) * bits(OType); and
\* QKDim = 16, EmbFold = 4 with 4-bit queries gives a query width of 16.
C13_StreamWidthIsLanesTimesBits ==
    /\ (result.op = "get_instream_width"
        /\ ActiveInput(nodeattr, result.arg)) =>
           result.value = <<InputLanes(nodeattr, result.arg)
                            * Bits(InputType(nodeattr, result.arg))>>
    /\ result.op = "get_outstream_width" =>
           result.value = <<(nodeattr.VDim \div nodeattr.EmbFold)
                            * Bits(nodeattr.OType)>>
    /\ (result.op = "get_instream_width" /\ result.arg = 0
        /\ nodeattr.QKDim = 16 /\ nodeattr.EmbFold = 4
        /\ Bits(nodeattr.QType) = 4) =>
           result.value = <<16>>


\* The width of the mask stream: nothing without a mask, otherwise the
\* lanes of the mask times the bits of its datatype.
MaskWidth(self) ==
    IF self.mask_mode = "none" THEN 0
    ELSE (self.KVLen \div self.SeqFold) * Bits(self.MType)

\* The widths get_ap_int_max_w has to cover: the three input streams, the
\* output stream, the mask, the attention weights and both accumulators.
CoveredWidths(self) ==
    {InputLanes(self, i) * Bits(InputType(self, i)) : i \in 0..2}
    \cup {(self.VDim \div self.EmbFold) * Bits(self.OType),
          MaskWidth(self),
          (self.KVLen \div self.SeqFold) * Bits(self.AType),
          Bits(self.AccQKMatMul), Bits(self.AccAVMatMul)}

MaxWidthQueried ==
    result.op = "get_ap_int_max_w" /\ is_valid_folding(nodeattr)

\* C14: under a valid folding get_ap_int_max_w returns a value in every
\* mask mode, and the value is at least every input and output stream
\* width, the mask stream width (0 exactly in mask_mode "none", the lanes
\* of the mask times bits(MType) in "input" and "causal"), the attention
\* weights width and both accumulator widths.
C14_MaxWidthCoversAllStreams ==
    MaxWidthQueried =>
        /\ result.raised = ""
        /\ \A w \in CoveredWidths(nodeattr) : result.value[1] >= w


\* The elements of one tile of a multiplication: the lanes of the embedding
\* dimension times the lanes of the attention weights.
QKTileElems(self) ==
    (self.QKDim \div self.EmbFold) * (self.KVLen \div self.SeqFold)

AVTileElems(self) ==
    (self.VDim \div self.EmbFold) * (self.KVLen \div self.SeqFold)

MaxWidthReturned == MaxWidthQueried /\ result.raised = ""

\* C18 as stated: under a valid folding the value get_ap_int_max_w returns
\* is at least the tile width taken from the left operand of each
\* multiplication, (QKDim / EmbFold) * (KVLen / SeqFold) * bits(QType) for
\* query times key and the like with bits(AType) for attention weights
\* times value, also when QType is wider than KType.
C18_MaxWidthCoversLeftOperandTiles ==
    MaxWidthReturned =>
        /\ result.value[1] >= QKTileElems(nodeattr) * Bits(nodeattr.QType)
        /\ result.value[1] >= AVTileElems(nodeattr) * Bits(nodeattr.AType)

\* C18, amended: under a valid folding the value get_ap_int_max_w returns
\* (it returns one in mask_mode "none" and "input") is at least the width
\* of a tile of the key matrix, (QKDim / EmbFold) * (KVLen / SeqFold) *
\* bits(KType), and of a tile of the value matrix, (VDim / EmbFold) *
\* (KVLen / SeqFold) * bits(VType).
C18_MaxWidthCoversKeyValueTiles ==
    MaxWidthReturned =>
        /\ result.value[1] >= QKTileElems(nodeattr) * Bits(nodeattr.KType)
        /\ result.value[1] >= AVTileElems(nodeattr) * Bits(nodeattr.VType)

\* The tile of the key matrix is the widest word of the operator: wider
\* than every stream, accumulator and matmul output.
C18_Witness ==
    /\ MaxWidthReturned
    /\ Bits(nodeattr.KType) > Bits(nodeattr.QType)
    /\ result.value = <<QKTileElems(nodeattr) * Bits(nodeattr.KType)>>
    /\ \A w \in CoveredWidths(nodeattr) : w < result.value[1]
    /\ result.value[1] > (nodeattr.KVLen \div nodeattr.SeqFold)
                            * Bits(nodeattr.OutQKMatMul)
    /\ result.value[1] > (nodeattr.VDim \div nodeattr.EmbFold)
                            * Bits(nodeattr.OutAVMatMul)


---------------------------------------------------------------------------
(* Emitted fragments (SpecEmit).                                           *)

StreamNames == {"q", "k", "v", "out", "m"}

\* The streams of the operator: the inputs and the output always, the mask
\* when it is provided as an input.
ActiveStreams(self) ==
    {"q", "k", "v", "out"}
    \cup (IF self.mask_mode = "input" THEN {"m"} ELSE {})

AxisPragma(port) == "#pragma HLS INTERFACE axis port=" \o port

StreamDeclaration(port) ==
    (CASE port = "q" -> "QStream"
       [] port = "k" -> "KStream"
       [] port = "v" -> "VStream"
       [] port = "out" -> "OStream"
       [] port = "m" -> "MStream") \o " " \o port \o ";"

NpyArgument(port) ==
    "  \"code_gen_dir_cppsim/" \o port \o ".npy\", " \o port \o ", false"

Emitted_(key) == key \in DOMAIN code_gen_dict

\* The streams a fragment mentions by lines of the given form.
StreamsWith(key, Line(_)) ==
    {p \in StreamNames : Occurrences(code_gen_dict[key], Line(p)) > 0}

\* C15: the fragment of pragmas holds exactly one axis directive for each
\* active stream (q, k, v, out, and m exactly in mask_mode "input") and one
\* ap_ctrl_none directive, nothing else; the streams it binds are those
\* strm_decl declares, and its input streams those read_npy_data reads.
C15_PragmasBindActiveStreams ==
    Emitted_("$PRAGMAS$") =>
        /\ \A p \in StreamNames :
               Occurrences(code_gen_dict["$PRAGMAS$"], AxisPragma(p))
                   = IF p \in ActiveStreams(nodeattr) THEN 1 ELSE 0
        /\ Occurrences(code_gen_dict["$PRAGMAS$"],
                       "#pragma HLS INTERFACE ap_ctrl_none port=return") = 1
        /\ Len(code_gen_dict["$PRAGMAS$"])
               = Cardinality(ActiveStreams(nodeattr)) + 1
        /\ Emitted_("$STREAMDECLARATIONS$") =>
               StreamsWith("$PRAGMAS$", AxisPragma)
                   = StreamsWith("$STREAMDECLARATIONS$", StreamDeclaration)
        /\ Emitted_("$READNPYDATA$") =>
               StreamsWith("$PRAGMAS$", AxisPragma) \ {"out"}
                   = StreamsWith("$READNPYDATA$", NpyArgument)

\* The template arguments of the Attention alias in a fragment: the lines
\* between its opening line and the closing ">;".
AliasArguments(frag) ==
    LET open == CHOOSE i \in DOMAIN frag :
                    frag[i] = "using Attention = ScaledDotProductAttention<"
        close == CHOOSE i \in DOMAIN frag : frag[i] = ">;"
    IN  SubSeq(frag, open + 1, close - 1)

\* The lines that pass the given names as template arguments.
ArgumentLines(names) ==
    [i \in DOMAIN names |->
        IF i = Len(names) THEN "    " \o names[i]
        ELSE "    " \o names[i] \o ","]

\* The line that declares a constant or a type alias of the fragment.
Declaration(self, name) ==
    IF name \in {"QKDim", "QLen", "VDim", "KVLen", "EmbFold", "SeqFold"}
    THEN "static constexpr std::size_t " \o name \o " = "
             \o ToString(self[name]) \o ";"
    ELSE IF name \in {"ActQKMatMul", "ActAVMatMul", "ActASoftmax"}
    THEN "using " \o name \o " = " \o self[name] \o ";"
    ELSE "using " \o name \o " = " \o HlsTypeStr(DataType(self[name])) \o ";"

\* Every name is declared by a line before the alias opens.
DeclaredBeforeAlias(self, frag, names) ==
    \A n \in DOMAIN names :
        \E j \in DOMAIN frag :
            /\ frag[j] = Declaration(self, names[n])
            /\ \A i \in DOMAIN frag :
                   frag[i] = "using Attention = ScaledDotProductAttention<"
                       => j < i

DeclaredNames ==
    <<"QKDim", "QLen", "VDim", "KVLen", "EmbFold", "SeqFold",
      "QType", "KType", "VType", "MType", "AType", "OType",
      "AccQKMatMul", "OutQKMatMul", "ActQKMatMul",
      "AccAVMatMul", "OutAVMatMul", "ActAVMatMul",
      "ActASoftmax">>

\* C16 as stated: the Attention alias of defines passes, in this order and
\* each exactly once, QKDim, QLen, VDim, KVLen, EmbFold, SeqFold, QType,
\* KType, VType, MType, AType, OType, then (AccQKMatMul, OutQKMatMul,
\* ActQKMatMul), then (AccAVMatMul, OutAVMatMul, ActAVMatMul), then
\* ActASoftmax, every name being declared earlier in the fragment.
C16_AliasPassesEveryDeclaredName ==
    Emitted_("$DEFINES$") =>
        /\ AliasArguments(code_gen_dict["$DEFINES$"])
               = ArgumentLines(DeclaredNames)
        /\ DeclaredBeforeAlias(nodeattr, code_gen_dict["$DEFINES$"],
                               DeclaredNames)

\* C16, amended: the Attention alias passes, in this order, the six
\* constants, the six datatypes QType .. OType, then (AccQKMatMul,
\* OutQKMatMul, ActQKMatMul), then (AccAVMatMul, OType, ActAVMatMul), then
\* ActASoftmax: OType is passed twice, the second time as the output of
\* the second multiplication, and OutAVMatMul, though declared, is not
\* passed; every name passed or declared is declared before the alias.
C16_AliasPassesOTypeForOutAVMatMul ==
    Emitted_("$DEFINES$") =>
        /\ AliasArguments(code_gen_dict["$DEFINES$"])
               = ArgumentLines([DeclaredNames EXCEPT ![17] = "OType"])
        /\ DeclaredBeforeAlias(nodeattr, code_gen_dict["$DEFINES$"],
                               DeclaredNames)

\* defines has emitted for an operator whose OType and OutAVMatMul differ.
C16_Witness ==
    /\ Emitted_("$DEFINES$")
    /\ last_op = "defines"
    /\ nodeattr.OType # nodeattr.OutAVMatMul
    /\ Occurrences(code_gen_dict["$DEFINES$"], "    OType,") = 2


---------------------------------------------------------------------------
(* Tightness of the accumulator width (SpecAcc).                           *)

\* The range the accumulator analysis works with: dim times the product of
\* the minima, and dim times the product of the maxima.
RangeMin(dim, ltype, rtype) ==
    dim * TypeMin(DataType(ltype)) * TypeMin(DataType(rtype))

RangeMax(dim, ltype, rtype) ==
    dim * TypeMax(DataType(ltype)) * TypeMax(DataType(rtype))

\* An unsigned accumulator one bit narrower than acc holds both ends of
\* the range, and so every value between them.
NarrowerUintHolds(acc, lo, hi) ==
    \A v \in {lo, hi} :
        0 <= v /\ v <= 2 ^ (DataType(acc).bitwidth - 1) - 1

\* C17: the accumulator widths minimize_accumulator_width stores are the
\* narrowest: an unsigned accumulator one bit narrower than AccQKMatMul
\* could not hold every value of [qkMin, qkMax], and likewise for
\* AccAVMatMul and [avMin, avMax].
C17_AccumulatorWidthIsNarrowest ==
    Returned_minimize
    => /\ ~NarrowerUintHolds(nodeattr.AccQKMatMul,
              RangeMin(nodeattr.QKDim, nodeattr.QType, nodeattr.KType),
              RangeMax(nodeattr.QKDim, nodeattr.QType, nodeattr.KType))
       /\ ~NarrowerUintHolds(nodeattr.AccAVMatMul,
              RangeMin(nodeattr.VDim, nodeattr.AType, nodeattr.VType),
              RangeMax(nodeattr.VDim, nodeattr.AType, nodeattr.VType))


---------------------------------------------------------------------------
(* The causal mask of the python mode (SpecExec).                          *)

CausalMaskGenerated == mask.kind = "causal"

\* C19: in exec_mode "python" with mask_mode "causal" the mask generated
\* has QLen rows of KVLen entries, "-inf" where the column index exceeds
\* the row index and 0 elsewhere, for every QLen and KVLen, so that every
\* row keeps an unmasked entry; and the python mode generates it whenever
\* it computes an output in that mask mode.
C19_CausalMaskIsStrictUpperTriangle ==
    /\ CausalMaskGenerated =>
           /\ nodeattr.mask_mode = "causal"
           /\ Len(mask.rows) = nodeattr.QLen
           /\ \A i \in 1..nodeattr.QLen :
                  /\ Len(mask.rows[i]) = nodeattr.KVLen
                  /\ \A j \in 1..nodeattr.KVLen :
                         mask.rows[i][j] = IF j > i THEN "-inf" ELSE "0.0"
                  /\ \E j \in 1..nodeattr.KVLen : mask.rows[i][j] = "0.0"
    /\ (context_out = "python" /\ nodeattr.mask_mode = "causal") =>
           CausalMaskGenerated

\* A mask that is not square: three queries, two keys, so that the last
\* row is unmasked throughout and the first row masks the second key.
C19_Witness ==
    /\ CausalMaskGenerated
    /\ context_out = "python"
    /\ nodeattr.QLen = 3
    /\ nodeattr.KVLen = 2
    /\ mask.rows = <<<<"0.0", "-inf">>, <<"0.0", "0.0">>, <<"0.0", "0.0">>>>

---------------------------------------------------------------------------
(* The frame of minimize_accumulator_width (SpecInfer).                    *)

MinimizeStep == last_op' = "minimize_accumulator_width"

AccumulatorAttrs == {"AccQKMatMul", "AccAVMatMul"}

\* C20: a call of minimize_accumulator_width changes no attribute other
\* than AccQKMatMul and AccAVMatMul (shapes, folds, the six role datatypes,
\* OutQKMatMul, OutAVMatMul, the activations and mask_mode stay), a second
\* call in a row changes nothing, and a call of infer_node_datatype leaves
\* both accumulator attributes as they were, whatever it does to QType,
\* KType and VType.
C20_MinimizeChangesOnlyAccumulators ==
    [][/\ MinimizeStep =>
            /\ DOMAIN nodeattr' = DOMAIN nodeattr
            /\ \A a \in DOMAIN nodeattr \ AccumulatorAttrs :
                   nodeattr'[a] = nodeattr[a]
            /\ Returned_minimize => nodeattr' = nodeattr
       /\ InferStep =>
            \A a \in AccumulatorAttrs : nodeattr'[a] = nodeattr[a]]_vars

\* The accumulators were minimized, then infer_node_datatype changed the
\* datatype of the queries: AccQKMatMul still has the width computed from
\* the old datatype.
C20_Witness ==
    /\ Returned_infer
    /\ nodeattr.AccQKMatMul # "UINT32"
    /\ nodeattr.AccQKMatMul
           # AccType(nodeattr.QKDim, nodeattr.QType, nodeattr.KType)

=============================================================================
